---------------------------- MODULE Spec2Model ----------------------------
(***************************************************************************)
(* Model of src/app/page.tsx: the response normalizer parseAgentResponse   *)
(* and the Page component's session state machine (profile, report,        *)
(* history, chat, localStorage).                                           *)
(*                                                                         *)
(* JavaScript values are tagged records, so that truthiness, typeof,       *)
(* Array.isArray, ?. and ?? are computed as JavaScript computes them.      *)
(***************************************************************************)
EXTENDS Integers, Sequences, FiniteSets, TLC

VARIABLES
    pc,             \* "unmounted" | "mounted" (Page) ; "norm_in" | "norm_out" (normalizer runs)
    envelope,       \* normalizer run: the AIAgentResponse handed to parseAgentResponse
    parsed,         \* normalizer run: what parseAgentResponse returned
    activeTab,      \* useState 'dashboard' | 'profile' | 'history'
    profile,        \* useState<FinancialProfile | null>
    hasProfile,     \* useState(false)
    report,         \* useState<FinancialReport | null>
    loading,        \* useState(false)
    error,          \* useState<string | null>
    chatOpen,       \* useState(false)
    chatMessages,   \* useState<ChatMessage[]>
    chatLoading,    \* useState(false)
    history,        \* useState<HistoryEntry[]>
    sampleMode,     \* useState(false)
    activeAgentId,  \* useState<string | null>
    sessionId,      \* useState('')
    storage,        \* localStorage: finance_history and finance_profile
    analysisCalls,  \* callAIAgent calls of handleAnalyze awaiting their result
    chatCalls,      \* callAIAgent calls of handleChatSend awaiting their result
    now,            \* Date.now()
    analyses,       \* number of analysis round trips completed
    chats,          \* number of chat round trips completed
    stalls,         \* number of analysis round trips that ended in the millisecond they began
    race,           \* which of two overlapping round trips, one of each kind, came back first or second
    stale           \* whether the active profile was changed under the analysis call in flight

vars == <<pc, envelope, parsed, activeTab, profile, hasProfile, report, loading,
          error, chatOpen, chatMessages, chatLoading, history, sampleMode,
          activeAgentId, sessionId, storage, analysisCalls, chatCalls, now,
          analyses, chats, stalls, race, stale>>

---------------------------------------------------------------------------
(* JavaScript values *)

Undef == [t |-> "undefined"]
Null == [t |-> "null"]
Num(n) == [t |-> "number", n |-> n]
Str(s) == [t |-> "string", s |-> s]
Bool(b) == [t |-> "boolean", b |-> b]
Arr(a) == [t |-> "array", a |-> a]
Obj(o) == [t |-> "object", o |-> o]

\* ToBoolean: undefined, null, 0, "" and false are falsy; objects and arrays
\* (empty ones too) are truthy.
Truthy(v) ==
    CASE v.t = "undefined" -> FALSE
      [] v.t = "null" -> FALSE
      [] v.t = "number" -> v.n # 0
      [] v.t = "string" -> v.s # ""
      [] v.t = "boolean" -> v.b
      [] OTHER -> TRUE

\* v?.k for the keys the program reads: an own property of an object, and
\* undefined on null, undefined, primitives and arrays.
Get(v, k) ==
    IF v.t = "object" /\ k \in DOMAIN v.o THEN v.o[k] ELSE Undef

\* a ?? b
Coalesce(a, b) == IF a.t \in {"undefined", "null"} THEN b ELSE a

\* x && typeof x === 'object' && !Array.isArray(x)
IsWrapperObject(v) == Truthy(v) /\ v.t = "object"

\* The order in which JSON.stringify writes the keys of the payloads of the
\* model (objects are written in this one insertion order).
KeyOrder ==
    << "success", "response", "result", "report_type", "income_summary",
       "credit_cards", "category_breakdown", "risk_alerts", "safe_to_spend",
       "analysis_period", "advice", "follow_up_response", "text", "message",
       "action", "financial_profile", "monthly_salary", "emis", "fixed_expenses",
       "search_query", "card_name", "name", "limit", "amount", "spend",
       "utilization_percent", "net_income", "savings", "rent", "utilities",
       "insurance", "note" >>

RECURSIVE Stringify(_)
RECURSIVE StringifyItems(_, _)
RECURSIVE StringifyMembers(_, _, _)

\* JSON.stringify(v) of a value that is not undefined.
Stringify(v) ==
    CASE v.t = "null" -> "null"
      [] v.t = "number" -> ToString(v.n)
      [] v.t = "string" -> "\"" \o v.s \o "\""
      [] v.t = "boolean" -> IF v.b THEN "true" ELSE "false"
      [] v.t = "array" -> "[" \o StringifyItems(v.a, 1) \o "]"
      [] v.t = "object" -> "{" \o StringifyMembers(v.o, 1, TRUE) \o "}"
      [] OTHER -> "null"

\* The elements of an array from index i on; undefined is written null.
StringifyItems(a, i) ==
    IF i > Len(a) THEN ""
    ELSE (IF i > 1 THEN "," ELSE "") \o Stringify(a[i]) \o StringifyItems(a, i + 1)

\* The members of an object from key number i on; a member whose value is
\* undefined is left out.
StringifyMembers(o, i, first) ==
    IF i > Len(KeyOrder) THEN ""
    ELSE LET k == KeyOrder[i] IN
         IF k \in DOMAIN o /\ o[k].t # "undefined"
         THEN (IF first THEN "" ELSE ",") \o "\"" \o k \o "\":" \o Stringify(o[k])
              \o StringifyMembers(o, i + 1, FALSE)
         ELSE StringifyMembers(o, i + 1, first)

---------------------------------------------------------------------------
(* parseAgentResponse *)

\* Lines 230-237: one `result` wrapper, then one `response` wrapper.
Unwrap(rawResult) ==
    LET d1 == IF IsWrapperObject(Get(rawResult, "result"))
              THEN Get(rawResult, "result") ELSE rawResult
    IN IF IsWrapperObject(Get(d1, "response")) THEN Get(d1, "response") ELSE d1

\* Line 239: the test that selects the structured branch.
IsStructured(data) ==
    \/ Truthy(Get(data, "income_summary"))
    \/ Truthy(Get(data, "credit_cards"))
    \/ Truthy(Get(data, "category_breakdown"))

ArrayOrEmpty(v) == IF v.t = "array" THEN v ELSE Arr(<<>>)

\* Lines 240-250.
StructuredReport(data) ==
    Obj([ report_type |-> Coalesce(Get(data, "report_type"), Str("Monthly Analysis")),
          income_summary |-> Coalesce(Get(data, "income_summary"), Null),
          credit_cards |-> ArrayOrEmpty(Get(data, "credit_cards")),
          category_breakdown |-> ArrayOrEmpty(Get(data, "category_breakdown")),
          risk_alerts |-> ArrayOrEmpty(Get(data, "risk_alerts")),
          safe_to_spend |-> IF Get(data, "safe_to_spend").t = "number"
                            THEN Get(data, "safe_to_spend") ELSE Num(0),
          analysis_period |-> Coalesce(Get(data, "analysis_period"), Str("Current Month")),
          advice |-> Coalesce(Get(data, "advice"), Str("")),
          follow_up_response |-> Coalesce(Get(data, "follow_up_response"), Str("")) ])

\* Lines 253-255 with the message field preferred to the text field.
TextResponse_MessageFirst(rawResult) ==
    IF rawResult.t = "string" THEN rawResult
    ELSE Coalesce(Get(rawResult, "message"),
                  Coalesce(Get(rawResult, "text"), Str(Stringify(rawResult))))

\* Lines 253-255: read from rawResult, not from the unwrapped data.
TextResponse(rawResult) ==
    IF rawResult.t = "string" THEN rawResult
    ELSE Coalesce(Get(rawResult, "text"),
                  Coalesce(Get(rawResult, "message"), Str(Stringify(rawResult))))

\* Lines 257-267.
ConversationalReport(rawResult) ==
    Obj([ follow_up_response |-> TextResponse(rawResult),
          income_summary |-> Null,
          credit_cards |-> Arr(<<>>),
          category_breakdown |-> Arr(<<>>),
          risk_alerts |-> Arr(<<>>),
          safe_to_spend |-> Num(0),
          analysis_period |-> Str(""),
          advice |-> Str(""),
          report_type |-> Str("") ])

\* Line 225 with the success test left out.
parseAgentResponse_NoSuccessTest(result) ==
    LET rawResult == Get(Get(result, "response"), "result") IN
    IF ~Truthy(rawResult) THEN Null
    ELSE IF IsStructured(Unwrap(rawResult)) THEN StructuredReport(Unwrap(rawResult))
         ELSE ConversationalReport(rawResult)

parseAgentResponse(result) ==
    IF ~Truthy(Get(result, "success")) THEN Null
    ELSE LET rawResult == Get(Get(result, "response"), "result") IN
         IF ~Truthy(rawResult) THEN Null
         ELSE IF IsStructured(Unwrap(rawResult)) THEN StructuredReport(Unwrap(rawResult))
              ELSE ConversationalReport(rawResult)

---------------------------------------------------------------------------
(* The envelopes handed to the normalizer runs *)

IncomeSummaryObj == Obj([net_income |-> Num(8500), savings |-> Num(2720)])

\* The card of the scenario: a negative spend and a utilization that is no number.
CardX ==
    Obj([card_name |-> Str("X"), limit |-> Num(1000), spend |-> Num(-50),
         utilization_percent |-> Str("bad")])

DetectKeys == {"income_summary", "credit_cards", "category_breakdown"}

\* The values a structured key holds: object, non-empty array, empty array,
\* null, 0, empty string.
FieldVals == {IncomeSummaryObj, Arr(<<CardX>>), Arr(<<>>), Null, Num(0), Str("")}

\* Every payload holding a non-empty subset of the three keys, each with any
\* of the values above.
DetectPayloads ==
    {Obj(f) : f \in UNION {[S -> FieldVals] : S \in (SUBSET DetectKeys) \ {{}}}}

OtherKeys ==
    {"report_type", "income_summary", "risk_alerts", "safe_to_spend",
     "analysis_period", "advice", "follow_up_response"}

\* Well-typed and ill-typed values for the other fields of a structured payload.
MixVals == {Str("Q1"), Num(42), Null, Arr(<<CardX>>), IncomeSummaryObj, Bool(TRUE)}

\* A payload with a card list and one other field.
OtherFieldPayloads ==
    {Obj([credit_cards |-> Arr(<<CardX>>)] @@ (k :> v)) : k \in OtherKeys, v \in MixVals}

FullStructured ==
    Obj([ report_type |-> Str("Monthly Financial Analysis"),
          income_summary |-> IncomeSummaryObj,
          credit_cards |-> Arr(<<CardX>>),
          category_breakdown |-> Arr(<<Obj([note |-> Str("Groceries")])>>),
          risk_alerts |-> Arr(<<Obj([message |-> Str("Dining up")])>>),
          safe_to_spend |-> Num(1420),
          analysis_period |-> Str("January 2026"),
          advice |-> Str("Save more"),
          follow_up_response |-> Str("") ])

CardsOnly == Obj([credit_cards |-> Arr(<<CardX>>)])

TextVals == {Undef, Null, Str(""), Str("hi"), Num(7)}
MessageVals == {Undef, Null, Str("msg")}

\* Payloads with none of the three keys: strings, other primitives, arrays, and
\* objects with every combination of a text and a message field.
ConvPayloads ==
    {Str("hello"), Num(5), Bool(TRUE), Arr(<<Num(1), Undef>>), Arr(<<>>)}
    \cup {Obj([note |-> Str("n"), text |-> tx, message |-> m]) :
              tx \in TextVals, m \in MessageVals}

\* Payloads that are present but falsy, and absent ones.
FalsyPayloads == {Undef, Null, Num(0), Str(""), Bool(FALSE)}

Wrap(k, p) == Obj((k :> p))

WrapperKeys == {"result", "response"}

\* p inside the wrappers named by chain, outermost first.
RECURSIVE WrapChain(_, _)
WrapChain(chain, p) ==
    IF chain = <<>> THEN p ELSE Wrap(Head(chain), WrapChain(Tail(chain), p))

MaxWrapDepth == 3

Chains(maxDepth) == UNION {[1..n -> WrapperKeys] : n \in 0..maxDepth}

StructuredCores == {FullStructured, CardsOnly}
ConvCores == {Obj([text |-> Str("hi")]), Obj([message |-> Str("msg")]), Obj([note |-> Str("n")])}

WrappedPayloads ==
    {WrapChain(c, p) : c \in Chains(MaxWrapDepth), p \in StructuredCores \cup ConvCores}
    \cup {Wrap("result", Arr(<<CardX>>)), Wrap("result", Str("hello")),
          Wrap("response", Null),
          Obj([result |-> FullStructured, text |-> Str("outer")]),
          Obj([credit_cards |-> Arr(<<CardX>>), result |-> Obj([note |-> Str("n")])])}

NormPayloads ==
    DetectPayloads \cup OtherFieldPayloads \cup {FullStructured} \cup ConvPayloads
    \cup FalsyPayloads \cup WrappedPayloads

\* { success, response: { result } }
Envelope(success, p) == Obj([success |-> success, response |-> Obj([result |-> p])])

SuccessEnvelope(p) == Envelope(Bool(TRUE), p)

NormEnvelopes ==
    {Envelope(s, p) : s \in {Bool(TRUE), Bool(FALSE), Undef}, p \in NormPayloads}
    \cup {Null, Undef, Obj([success |-> Bool(TRUE)]),
          Obj([success |-> Bool(TRUE), response |-> Null]),
          Obj([success |-> Bool(TRUE), response |-> Obj([message |-> Str("msg")])])}

---------------------------------------------------------------------------
(* Page state after construction (the useState initial values, lines 997-1023) *)

MANAGER_AGENT_ID == "6992c20848cf09a10ff22202"

Absent == [kind |-> "absent"]

EmptyStorage == [finance_history |-> Absent, finance_profile |-> Absent]

PageInitialState ==
    /\ activeTab = "dashboard"
    /\ profile = Null
    /\ hasProfile = FALSE
    /\ report = Null
    /\ loading = FALSE
    /\ error = Null
    /\ chatOpen = FALSE
    /\ chatMessages = <<>>
    /\ chatLoading = FALSE
    /\ history = <<>>
    /\ sampleMode = FALSE
    /\ activeAgentId = Null
    /\ sessionId = ""
    /\ analysisCalls = <<>>
    /\ chatCalls = <<>>
    /\ now = 0
    /\ analyses = 0
    /\ chats = 0
    /\ stalls = 0
    /\ race = "none"
    /\ stale = "no"

pageVars ==
    <<activeTab, profile, hasProfile, report, loading, error, chatOpen,
      chatMessages, chatLoading, history, sampleMode, activeAgentId, sessionId,
      storage, analysisCalls, chatCalls, now>>

\* The counters that bound the runs and the records of overlapping round
\* trips and of profile changes under a call in flight; no handler reads or
\* writes them.
trips == <<analyses, chats, stalls, race>>
counters == <<analyses, chats, stalls, race, stale>>

---------------------------------------------------------------------------
(* Sample data (lines 135-182; amounts rounded to whole numbers, the lists
   of categories and alerts abridged) *)

SAMPLE_PROFILE ==
    Obj([ salary |-> Num(8500),
          cards |-> Arr(<<Obj([name |-> Str("Chase Sapphire"), limit |-> Num(15000)]),
                          Obj([name |-> Str("Amex Gold"), limit |-> Num(10000)])>>),
          emis |-> Arr(<<Obj([name |-> Str("Car Loan"), amount |-> Num(450)]),
                         Obj([name |-> Str("Student Loan"), amount |-> Num(280)])>>),
          fixedExpenses |-> Obj([rent |-> Num(1800), utilities |-> Num(220),
                                 insurance |-> Num(180)]) ])

SAMPLE_REPORT ==
    Obj([ report_type |-> Str("Monthly Financial Analysis"),
          income_summary |->
              Obj([net_income |-> Num(8500), total_fixed_expenses |-> Num(2200),
                   total_variable_expenses |-> Num(2850), total_emi |-> Num(730),
                   total_outflow |-> Num(5780), savings |-> Num(2720),
                   savings_rate |-> Num(32)]),
          credit_cards |->
              Arr(<<Obj([card_name |-> Str("Chase Sapphire"), limit |-> Num(15000),
                         spend |-> Num(3200), utilization_percent |-> Num(21)]),
                    Obj([card_name |-> Str("Amex Gold"), limit |-> Num(10000),
                         spend |-> Num(1850), utilization_percent |-> Num(19)])>>),
          category_breakdown |->
              Arr(<<Obj([category |-> Str("Groceries"), amount |-> Num(680)]),
                    Obj([category |-> Str("Dining Out"), amount |-> Num(420)])>>),
          risk_alerts |->
              Arr(<<Obj([alert_type |-> Str("Spending Trend"), severity |-> Str("medium")]),
                    Obj([alert_type |-> Str("Credit Alert"), severity |-> Str("high")])>>),
          safe_to_spend |-> Num(1420),
          analysis_period |-> Str("January 2026"),
          advice |-> Str("Your savings rate of 32% is excellent."),
          follow_up_response |-> Str("") ])

---------------------------------------------------------------------------
(* localStorage *)

\* A stored text is modelled by the value JSON.parse gives for it; a text
\* JSON.parse rejects is Corrupt.
StoredJson(v) == [kind |-> "json", value |-> v]
Corrupt == [kind |-> "corrupt"]

RECURSIVE JSONValue(_)
\* JSON.parse(JSON.stringify(v)): members that are undefined are dropped,
\* array elements that are undefined become null.
JSONValue(v) ==
    CASE v.t = "array" ->
           Arr([i \in 1..Len(v.a) |->
                  IF v.a[i].t = "undefined" THEN Null ELSE JSONValue(v.a[i])])
      [] v.t = "object" ->
           Obj([k \in {x \in DOMAIN v.o : v.o[x].t # "undefined"} |-> JSONValue(v.o[k])])
      [] OTHER -> v

\* setItem with every write going to the history key.
SetItem_HistoryKey(store, key, v, ok) ==
    IF ok THEN [store EXCEPT !["finance_history"] = StoredJson(JSONValue(v))] ELSE store

\* localStorage.setItem(key, JSON.stringify(v)) inside try/catch: when the
\* write throws the store keeps what it had.
SetItem(store, key, v, ok) ==
    IF ok THEN [store EXCEPT ![key] = StoredJson(JSONValue(v))] ELSE store

---------------------------------------------------------------------------
(* Profiles and history entries *)

Profile(salary) ==
    Obj([ salary |-> salary, cards |-> Arr(<<>>), emis |-> Arr(<<>>),
          fixedExpenses |-> Obj([rent |-> Num(0), utilities |-> Num(0),
                                 insurance |-> Num(0)]) ])

\* The blank form of lines 1194 and 1234.
BlankProfile == Profile(Num(0))

\* form.salary <= 0 (line 920), as JavaScript compares: null, "" and false
\* convert to 0, undefined and other strings to NaN.
SalaryNotPositive(v) ==
    CASE v.t = "number" -> v.n <= 0
      [] v.t = "null" -> TRUE
      [] v.t = "string" -> v.s = ""
      [] v.t = "boolean" -> ~v.b
      [] OTHER -> FALSE

\* toLocaleDateString with hour and minute (line 1054) shows the minute a
\* time falls in; a minute has 60000 ms.
MsPerMinute == 60000

FormatDate(ms) == "minute " \o ToString(ms \div MsPerMinute)

\* Lines 1052-1057 with the profile left out.
HistoryEntry_ReportOnly(newReport, currentProfile, ms) ==
    Obj([ id |-> Str(ToString(ms)), date |-> Str(FormatDate(ms)),
          report |-> newReport, profile |-> Null ])

\* Lines 1052-1057.
HistoryEntry(newReport, currentProfile, ms) ==
    Obj([ id |-> Str(ToString(ms)), date |-> Str(FormatDate(ms)),
          report |-> newReport, profile |-> currentProfile ])

HISTORY_LIMIT == 20

Take(seq, n) == IF Len(seq) <= n THEN seq ELSE SubSeq(seq, 1, n)

\* Line 1059 without the slice.
UpdatedHistory_NoSlice(entry, prev) == <<entry>> \o prev

\* Line 1059: [entry, ...prev].slice(0, 20)
UpdatedHistory(entry, prev) == Take(<<entry>> \o prev, HISTORY_LIMIT)

---------------------------------------------------------------------------
(* What the Page renders (lines 1164-1285) and DashboardView shows *)

\* Lines 1169, 1220, 1243: the three returns of Page.
View ==
    IF ~hasProfile /\ activeTab # "profile" THEN "setup"
    ELSE IF activeTab = "profile" THEN "profile"
    ELSE "main"

\* DashboardView is rendered by the main view and, in sample mode, by the
\* setup view with the sample data and loading = false (lines 1179-1191).
DashboardShown == View = "main" \/ (View = "setup" /\ sampleMode)
ShownReport == IF View = "main" THEN report ELSE SAMPLE_REPORT
ShownProfile == IF View = "main" THEN profile ELSE SAMPLE_PROFILE
ShownLoading == IF View = "main" THEN loading ELSE FALSE
ShownError == IF View = "main" THEN error ELSE Null

\* ProfileForm is rendered by the setup view outside sample mode and by the
\* profile view (lines 1193, 1233).
ProfileFormShown == (View = "setup" /\ ~sampleMode) \/ View = "profile"

\* The form's initial content: the profile prop.
FormProfile == IF View = "profile" THEN Coalesce(profile, BlankProfile) ELSE BlankProfile

\* Rendering throws on profile.cards.length (line 1329) and on form.cards.map,
\* form.emis.map, form.fixedExpenses.rent (lines 798-884) when the profile in
\* hand lacks these fields; nothing can be clicked then.
Renders ==
    /\ (DashboardShown /\ Truthy(ShownProfile)) => Get(ShownProfile, "cards").t = "array"
    /\ ProfileFormShown =>
         /\ Get(FormProfile, "cards").t = "array"
         /\ Get(FormProfile, "emis").t = "array"
         /\ Get(FormProfile, "fixedExpenses").t = "object"

Interactive == pc = "mounted" /\ Renders

\* Line 1363-1371: the Try Again button.
TryAgainShown == DashboardShown /\ activeTab = "dashboard" /\ Truthy(ShownError)

\* Lines 1380-1394: the Analyze My Finances button.
AnalyzeCtaShown ==
    DashboardShown /\ activeTab = "dashboard" /\ ~ShownLoading /\ ~Truthy(ShownReport)

\* Lines 1400-1409: the Re-analyze button, inside {report.report_type && ...}.
ReanalyzeShown ==
    /\ DashboardShown /\ activeTab = "dashboard" /\ ~ShownLoading
    /\ Truthy(ShownReport) /\ Truthy(Get(ShownReport, "report_type"))

\* The Analyze button shown whatever loading is.
AnalyzeTriggerShown_IgnoreLoading ==
    DashboardShown /\ activeTab = "dashboard"

\* Some control whose onClick is onAnalyze is on screen.
AnalyzeTriggerShown == TryAgainShown \/ AnalyzeCtaShown \/ ReanalyzeShown

\* ChatPanel (lines 1200, 1276) is rendered by the setup and main views and
\* draws itself when isOpen (line 637).
ChatPanelShown == View \in {"setup", "main"} /\ chatOpen

\* The chat toggle button (lines 1207, 1266).
ChatToggleShown ==
    \/ View = "main" /\ ~chatOpen
    \/ View = "setup" /\ ~chatOpen /\ sampleMode

---------------------------------------------------------------------------
(* Page: the mount effect and the handlers *)

\* Line 1027 with nothing generated.
SessionIdOf_Blank(ms, suffix) == ""

\* Line 1027.
SessionIdOf(ms, suffix) == "session_" \o ToString(ms) \o "_" \o suffix

\* Lines 1026-1048 with a history record that cannot be used reported
\* through the error state.
Startup_SurfaceError(suffix) ==
    /\ pc = "unmounted"
    /\ pc' = "mounted"
    /\ sessionId' = SessionIdOf(now, suffix)
    /\ LET h == storage.finance_history
           p == storage.finance_profile
       IN /\ history' = IF h.kind = "json" /\ h.value.t = "array"
                        THEN h.value.a ELSE history
          /\ error' = IF h.kind = "corrupt" \/ (h.kind = "json" /\ h.value.t # "array")
                      THEN Str("Could not load your history.") ELSE error
          /\ IF /\ h.kind # "corrupt"
                /\ p.kind = "json"
                /\ Truthy(Get(p.value, "salary"))
             THEN profile' = p.value /\ hasProfile' = TRUE
             ELSE UNCHANGED <<profile, hasProfile>>
    /\ UNCHANGED <<envelope, parsed, activeTab, report, loading, chatOpen,
                   chatMessages, chatLoading, sampleMode, activeAgentId, storage,
                   analysisCalls, chatCalls, now>>

\* Lines 1026-1048. A text JSON.parse rejects throws into the catch of line
\* 1045, which skips whatever follows it in the try block.
Startup(suffix) ==
    /\ pc = "unmounted"
    /\ pc' = "mounted"
    /\ sessionId' = SessionIdOf(now, suffix)
    /\ LET h == storage.finance_history
           p == storage.finance_profile
       IN /\ history' = IF h.kind = "json" /\ h.value.t = "array"
                        THEN h.value.a ELSE history
          /\ IF /\ h.kind # "corrupt"
                /\ p.kind = "json"
                /\ Truthy(Get(p.value, "salary"))
             THEN profile' = p.value /\ hasProfile' = TRUE
             ELSE UNCHANGED <<profile, hasProfile>>
    /\ UNCHANGED <<envelope, parsed, activeTab, report, loading, error, chatOpen,
                   chatMessages, chatLoading, sampleMode, activeAgentId, storage,
                   analysisCalls, chatCalls, now>>

\* Lines 1070-1079 with a failed write reported through the error state.
handleSaveProfile_SurfaceError(p, ok) ==
    /\ Interactive
    /\ ProfileFormShown
    /\ ~SalaryNotPositive(Get(p, "salary"))
    /\ profile' = p
    /\ hasProfile' = TRUE
    /\ activeTab' = "dashboard"
    /\ storage' = SetItem(storage, "finance_profile", p, ok)
    /\ error' = IF ok THEN error ELSE Str("Could not save your profile.")
    /\ UNCHANGED <<pc, envelope, parsed, report, loading, chatOpen,
                   chatMessages, chatLoading, history, sampleMode, activeAgentId,
                   sessionId, analysisCalls, chatCalls, now>>

\* Lines 1070-1079, reached from the Save button of line 920.
handleSaveProfile(p, ok) ==
    /\ Interactive
    /\ ProfileFormShown
    /\ ~SalaryNotPositive(Get(p, "salary"))
    /\ profile' = p
    /\ hasProfile' = TRUE
    /\ activeTab' = "dashboard"
    /\ storage' = SetItem(storage, "finance_profile", p, ok)
    /\ UNCHANGED <<pc, envelope, parsed, report, loading, error, chatOpen,
                   chatMessages, chatLoading, history, sampleMode, activeAgentId,
                   sessionId, analysisCalls, chatCalls, now>>

\* Lines 1088-1097: the request text.
AnalyzeMessage(p) ==
    Str(Stringify(Obj([
        action |-> Str("analyze_finances"),
        financial_profile |-> Obj([
            monthly_salary |-> Get(p, "salary"),
            credit_cards |->
                Arr([i \in 1..Len(Get(p, "cards").a) |->
                       Obj([name |-> Get(Get(p, "cards").a[i], "name"),
                            limit |-> Get(Get(p, "cards").a[i], "limit")])]),
            emis |->
                Arr([i \in 1..Len(Get(p, "emis").a) |->
                       Obj([name |-> Get(Get(p, "emis").a[i], "name"),
                            amount |-> Get(Get(p, "emis").a[i], "amount")])]),
            fixed_expenses |-> Get(p, "fixedExpenses") ]),
        search_query |-> Str("credit card transaction alert statement") ])))

\* What callAIAgent is called with, and the profile of the closure that
\* awaits it.
AnalysisCall(p) ==
    [message |-> AnalyzeMessage(p), agentId |-> MANAGER_AGENT_ID,
     session_id |-> sessionId, profile |-> p]

\* Lines 1082-1100 without the setError(null) of line 1085.
handleAnalyze_KeepsError ==
    /\ Interactive
    /\ AnalyzeTriggerShown
    /\ IF ~Truthy(profile)
       THEN UNCHANGED <<loading, activeAgentId, analysisCalls>>
       ELSE /\ loading' = TRUE
            /\ activeAgentId' = Str(MANAGER_AGENT_ID)
            /\ IF Get(profile, "cards").t = "array" /\ Get(profile, "emis").t = "array"
               THEN analysisCalls' = Append(analysisCalls, AnalysisCall(profile))
               ELSE UNCHANGED analysisCalls
    /\ UNCHANGED <<pc, envelope, parsed, activeTab, profile, hasProfile, report,
                   error, chatOpen, chatMessages, chatLoading, history, sampleMode,
                   sessionId, storage, chatCalls, now>>

\* Lines 1082-1100 up to the await. profile.cards.map and profile.emis.map
\* (lines 1092-1093) throw before the try block when the field is no array:
\* the three state updates are made and no call is issued.
handleAnalyze ==
    /\ Interactive
    /\ AnalyzeTriggerShown
    /\ IF ~Truthy(profile)
       THEN UNCHANGED <<loading, error, activeAgentId, analysisCalls>>
       ELSE /\ loading' = TRUE
            /\ error' = Null
            /\ activeAgentId' = Str(MANAGER_AGENT_ID)
            /\ IF Get(profile, "cards").t = "array" /\ Get(profile, "emis").t = "array"
               THEN analysisCalls' = Append(analysisCalls, AnalysisCall(profile))
               ELSE UNCHANGED analysisCalls
    /\ UNCHANGED <<pc, envelope, parsed, activeTab, profile, hasProfile, report,
                   chatOpen, chatMessages, chatLoading, history, sampleMode,
                   sessionId, storage, chatCalls, now>>

RemoveAt(seq, i) == SubSeq(seq, 1, i - 1) \o SubSeq(seq, i + 1, Len(seq))

\* What the await of callAIAgent yields: an envelope, or a thrown value.
Returned(env) == [kind |-> "returned", value |-> env]
Thrown(err) == [kind |-> "thrown", value |-> err]

\* An Error object with this message.
ErrorObject(msg) == [t |-> "error", message |-> msg]

\* Line 1109.
AnalysisErrorText(err) ==
    IF err.t = "error" THEN err.message ELSE Str("An error occurred during analysis.")

\* Line 1106: the message shown when the normalizer returned null.
ParseErrorText == Str("Could not parse the financial analysis. Please try again.")

\* Line 1104 with the profile of the render at hand in place of the one the
\* closure holds.
ClosureProfile_Live(call, current) == current

\* Line 1104: the profile handed to saveHistory is the one of the closure
\* that issued the call (the value profile had when handleAnalyze ran), not
\* the profile state at the time of the return.
ClosureProfile(call, current) == call.profile

\* Lines 1100-1113 from the await on, for the i-th call in flight; dt is the
\* time the round trip took. saveHistory (lines 1051-1067) is part of the step.
handleAnalyzeResume(i, outcome, dt, ok) ==
    /\ pc = "mounted"
    /\ i \in 1..Len(analysisCalls)
    /\ now' = now + dt
    /\ analysisCalls' = RemoveAt(analysisCalls, i)
    /\ LET call == analysisCalls[i]
           result == IF outcome.kind = "returned"
                     THEN parseAgentResponse(outcome.value) ELSE Null
           entry == HistoryEntry(result, ClosureProfile(call, profile), now + dt)
           updated == UpdatedHistory(entry, history)
       IN IF outcome.kind = "thrown"
          THEN /\ error' = AnalysisErrorText(outcome.value)
               /\ UNCHANGED <<report, history, storage>>
          ELSE IF Truthy(result)
               THEN /\ report' = result
                    /\ history' = updated
                    /\ storage' = SetItem(storage, "finance_history", Arr(updated), ok)
                    /\ UNCHANGED error
               ELSE /\ error' = ParseErrorText
                    /\ UNCHANGED <<report, history, storage>>
    /\ loading' = FALSE
    /\ activeAgentId' = Null
    /\ UNCHANGED <<pc, envelope, parsed, activeTab, profile, hasProfile, chatOpen,
                   chatMessages, chatLoading, sampleMode, sessionId, chatCalls>>

ChatMessage(role, content, ms) == [role |-> role, content |-> content, timestamp |-> ms]

\* Lines 1117-1123 with the analysis error cleared as handleAnalyze clears it.
handleChatSend_ClearsError(userMessage) ==
    /\ chatMessages' = Append(chatMessages, ChatMessage("user", userMessage, now))
    /\ chatLoading' = TRUE
    /\ error' = Null
    /\ activeAgentId' = Str(MANAGER_AGENT_ID)
    /\ chatCalls' = Append(chatCalls, [message |-> userMessage,
                                       agentId |-> MANAGER_AGENT_ID,
                                       session_id |-> sessionId])
    /\ UNCHANGED <<pc, envelope, parsed, activeTab, profile, hasProfile, report,
                   loading, chatOpen, history, sampleMode, sessionId,
                   storage, analysisCalls, now>>

\* Lines 1117-1123 up to the await.
handleChatSend(userMessage) ==
    /\ chatMessages' = Append(chatMessages, ChatMessage("user", userMessage, now))
    /\ chatLoading' = TRUE
    /\ activeAgentId' = Str(MANAGER_AGENT_ID)
    /\ chatCalls' = Append(chatCalls, [message |-> userMessage,
                                       agentId |-> MANAGER_AGENT_ID,
                                       session_id |-> sessionId])
    /\ UNCHANGED <<pc, envelope, parsed, activeTab, profile, hasProfile, report,
                   loading, error, chatOpen, history, sampleMode, sessionId,
                   storage, analysisCalls, now>>

\* ChatPanel.handleSend (lines 630-635): the typed text, trimmed, is sent
\* unless it is empty or a chat call is in flight.
ChatPanelSend(text) ==
    /\ Interactive
    /\ ChatPanelShown
    /\ text.s # ""
    /\ ~chatLoading
    /\ handleChatSend(text)

\* The suggestion buttons (lines 655-669), shown while the log is empty.
ChatSuggestionClick(q) ==
    /\ Interactive
    /\ ChatPanelShown
    /\ Len(chatMessages) = 0
    /\ handleChatSend(q)

\* a || b
Or(a, b) == IF Truthy(a) THEN a ELSE b

\* Line 1125 without the envelope's message.
ChatResponseText_NoGatewayMessage(result, env) ==
    Or(Get(result, "follow_up_response"),
       Or(Get(result, "advice"),
          Str("I was unable to process your request. Please try again.")))

\* Line 1125.
ChatResponseText(result, env) ==
    Or(Get(result, "follow_up_response"),
       Or(Get(result, "advice"),
          Or(Get(Get(env, "response"), "message"),
             Str("I was unable to process your request. Please try again."))))

\* Lines 1123-1137 from the await on, for the i-th chat call in flight.
handleChatSendResume(i, outcome, dt) ==
    /\ pc = "mounted"
    /\ i \in 1..Len(chatCalls)
    /\ now' = now + dt
    /\ chatCalls' = RemoveAt(chatCalls, i)
    /\ LET result == IF outcome.kind = "returned"
                     THEN parseAgentResponse(outcome.value) ELSE Null
       IN IF outcome.kind = "thrown"
          THEN /\ chatMessages' =
                    Append(chatMessages,
                           ChatMessage("agent", Str("Sorry, an error occurred. Please try again."),
                                       now + dt))
               /\ UNCHANGED report
          ELSE /\ chatMessages' =
                    Append(chatMessages,
                           ChatMessage("agent", ChatResponseText(result, outcome.value),
                                       now + dt))
               /\ report' = IF Truthy(Get(result, "income_summary")) THEN result ELSE report
    /\ chatLoading' = FALSE
    /\ activeAgentId' = Null
    /\ UNCHANGED <<pc, envelope, parsed, activeTab, profile, hasProfile, loading,
                   error, chatOpen, history, sampleMode, sessionId, storage,
                   analysisCalls>>

\* Lines 1141-1152 with the sample's report type written into the report at
\* hand instead of replacing it.
handleSampleToggle_Patch(checked) ==
    /\ Interactive
    /\ sampleMode' = checked
    /\ IF checked
       THEN /\ IF ~hasProfile
               THEN profile' = SAMPLE_PROFILE /\ hasProfile' = TRUE
               ELSE UNCHANGED <<profile, hasProfile>>
            /\ report' = IF Truthy(report)
                         THEN Obj([report.o EXCEPT
                                     !.report_type = Get(SAMPLE_REPORT, "report_type")])
                         ELSE SAMPLE_REPORT
       ELSE /\ report' = Null
            /\ UNCHANGED <<profile, hasProfile>>
    /\ UNCHANGED <<pc, envelope, parsed, activeTab, loading, error, chatOpen,
                   chatMessages, chatLoading, history, activeAgentId, sessionId,
                   storage, analysisCalls, chatCalls, now>>

\* Lines 1141-1152, from the Switch of lines 1175, 1225, 1248.
handleSampleToggle(checked) ==
    /\ Interactive
    /\ sampleMode' = checked
    /\ IF checked
       THEN /\ IF ~hasProfile
               THEN profile' = SAMPLE_PROFILE /\ hasProfile' = TRUE
               ELSE UNCHANGED <<profile, hasProfile>>
            /\ report' = SAMPLE_REPORT
       ELSE /\ report' = Null
            /\ UNCHANGED <<profile, hasProfile>>
    /\ UNCHANGED <<pc, envelope, parsed, activeTab, loading, error, chatOpen,
                   chatMessages, chatLoading, history, activeAgentId, sessionId,
                   storage, analysisCalls, chatCalls, now>>

\* Lines 1157-1160 with the entry's profile ignored.
ProfileAfterView_Kept(entry, current) == current

\* Lines 1157-1160: the active profile after the entry is selected.
ProfileAfterView(entry, current) ==
    IF Truthy(Get(entry, "profile")) THEN Get(entry, "profile") ELSE current

\* Lines 1155-1162, from a card of HistoryView (line 958) on the history tab.
handleViewHistoryEntry(k) ==
    /\ Interactive
    /\ DashboardShown
    /\ activeTab = "history"
    /\ k \in 1..Len(history)
    /\ LET entry == history[k] IN
       /\ report' = Get(entry, "report")
       /\ profile' = ProfileAfterView(entry, profile)
       /\ hasProfile' = (Truthy(Get(entry, "profile")) \/ hasProfile)
    /\ activeTab' = "dashboard"
    /\ UNCHANGED <<pc, envelope, parsed, loading, error, chatOpen, chatMessages,
                   chatLoading, history, sampleMode, activeAgentId, sessionId,
                   storage, analysisCalls, chatCalls, now>>

\* setActiveTab: the tabs of DashboardView (line 1348), Edit Profile (lines
\* 1186, 1258, 1340) and Back to Dashboard (line 1229).
SetActiveTab(tab) ==
    /\ Interactive
    /\ \/ DashboardShown
       \/ View = "profile" /\ tab = "dashboard"
    /\ tab # activeTab
    /\ activeTab' = tab
    /\ UNCHANGED <<pc, envelope, parsed, profile, hasProfile, report, loading,
                   error, chatOpen, chatMessages, chatLoading, history, sampleMode,
                   activeAgentId, sessionId, storage, analysisCalls, chatCalls,
                   now>>

\* setChatOpen: the toggle button (lines 1209, 1268) and onClose (line 646).
SetChatOpen(open) ==
    /\ Interactive
    /\ IF open THEN ChatToggleShown ELSE ChatPanelShown
    /\ chatOpen' = open
    /\ UNCHANGED <<pc, envelope, parsed, activeTab, profile, hasProfile, report,
                   loading, error, chatMessages, chatLoading, history, sampleMode,
                   activeAgentId, sessionId, storage, analysisCalls, chatCalls,
                   now>>

---------------------------------------------------------------------------
(* Normalizer runs: one call of parseAgentResponse on one envelope *)

InitNorm ==
    /\ pc = "norm_in"
    /\ envelope \in NormEnvelopes
    /\ parsed = Undef
    /\ storage = EmptyStorage
    /\ PageInitialState

Normalize ==
    /\ pc = "norm_in"
    /\ parsed' = parseAgentResponse(envelope)
    /\ pc' = "norm_out"
    /\ UNCHANGED <<envelope, pageVars, counters>>

NextNorm == Normalize

SpecNorm == InitNorm /\ [][NextNorm]_vars

---------------------------------------------------------------------------
(* Claims about parseAgentResponse, checked under SpecNorm *)

RawPayload(env) == Get(Get(env, "response"), "result")

Successful(env) == Get(env, "success") = Bool(TRUE)

HasKey(v, k) == v.t = "object" /\ k \in DOMAIN v.o

HasAnyDetectKey(v) == \E k \in DetectKeys : HasKey(v, k)

IsReport(r) ==
    /\ r.t = "object"
    /\ DOMAIN r.o = {"report_type", "income_summary", "credit_cards",
                     "category_breakdown", "risk_alerts", "safe_to_spend",
                     "analysis_period", "advice", "follow_up_response"}

\* Every structured field other than income_summary at its conversational default.
StructuredFieldsDefault(r) ==
    /\ r.o.credit_cards = Arr(<<>>)
    /\ r.o.category_breakdown = Arr(<<>>)
    /\ r.o.risk_alerts = Arr(<<>>)
    /\ r.o.safe_to_spend = Num(0)
    /\ r.o.report_type = Str("")
    /\ r.o.analysis_period = Str("")
    /\ r.o.advice = Str("")

\* C3: an envelope with success = false, and an envelope that carries no
\* result payload (no response, or a result that is undefined or null), is
\* normalized to null.
C3_FailureIsNull ==
    (pc = "norm_out"
       /\ (Get(envelope, "success") = Bool(FALSE)
           \/ RawPayload(envelope).t \in {"undefined", "null"}))
    => parsed = Null

C3_Witness ==
    /\ pc = "norm_out"
    /\ envelope = Envelope(Bool(FALSE), FullStructured)
    /\ parsed = Null

\* C4: a successful payload holding at least one of income_summary,
\* credit_cards, category_breakdown, whatever the value of the key, is
\* normalized by the structured branch.
C4_AnyKeyIsStructured ==
    (pc = "norm_out" /\ Successful(envelope) /\ HasAnyDetectKey(RawPayload(envelope)))
    => parsed = StructuredReport(RawPayload(envelope))

\* C5: for a payload holding at least one of the three keys the result is a
\* report whose income_summary is the input's when that is an object, and in
\* which every other field that is absent or ill-typed has its typed default.
C5_TypedDefaults ==
    (pc = "norm_out" /\ Successful(envelope) /\ HasAnyDetectKey(RawPayload(envelope)))
    => LET p == RawPayload(envelope) IN
       /\ IsReport(parsed)
       /\ Get(p, "income_summary").t = "object"
            => parsed.o.income_summary = Get(p, "income_summary")
       /\ \A k \in {"credit_cards", "category_breakdown", "risk_alerts"} :
            Get(p, k).t # "array" => parsed.o[k] = Arr(<<>>)
       /\ Get(p, "safe_to_spend").t # "number" => parsed.o.safe_to_spend = Num(0)
       /\ Get(p, "report_type").t # "string"
            => parsed.o.report_type = Str("Monthly Analysis")
       /\ Get(p, "analysis_period").t # "string"
            => parsed.o.analysis_period = Str("Current Month")
       /\ Get(p, "advice").t # "string" => parsed.o.advice = Str("")
       /\ Get(p, "follow_up_response").t # "string"
            => parsed.o.follow_up_response = Str("")

\* The text the claim names: the raw string payload, else its text field,
\* else its message field, else the serialization of the whole payload (a
\* field that is undefined or null counts as missing).
PriorityText(p) ==
    CASE p.t = "string" -> p
      [] Get(p, "text").t \notin {"undefined", "null"} -> Get(p, "text")
      [] Get(p, "message").t \notin {"undefined", "null"} -> Get(p, "message")
      [] OTHER -> Str(Stringify(p))

IsConversationalOf(r, p) ==
    /\ IsReport(r)
    /\ r.o.income_summary = Null
    /\ StructuredFieldsDefault(r)
    /\ r.o.follow_up_response = PriorityText(p)

\* The payload as the detection rule sees it has none of the three keys.
HasNoDetectKey(p) == ~HasAnyDetectKey(Unwrap(p))

\* C6 as stated: every successful payload that is present (not undefined, not
\* null) and has none of the three keys is normalized to a conversational
\* report whose follow_up_response is chosen in the priority order.
C6_Original ==
    (pc = "norm_out" /\ Successful(envelope)
       /\ RawPayload(envelope).t \notin {"undefined", "null"}
       /\ HasNoDetectKey(RawPayload(envelope)))
    => IsConversationalOf(parsed, RawPayload(envelope))

\* C6 as amended: the same for every successful payload that is truthy (a
\* present payload other than 0, "" and false).
C6_ConversationalPriority ==
    (pc = "norm_out" /\ Successful(envelope)
       /\ Truthy(RawPayload(envelope))
       /\ HasNoDetectKey(RawPayload(envelope)))
    => IsConversationalOf(parsed, RawPayload(envelope))

C6_Witness ==
    /\ pc = "norm_out"
    /\ envelope = SuccessEnvelope(Obj([note |-> Str("n"), text |-> Null,
                                       message |-> Str("msg")]))
    /\ parsed.o.follow_up_response = Str("msg")

\* C7: a report is structured (income_summary not null) or conversational
\* (every structured field at its default), never a mix.
C7_NeverMixed ==
    (pc = "norm_out" /\ parsed # Null)
    => (parsed.o.income_summary # Null \/ StructuredFieldsDefault(parsed))

\* C8: a structured payload inside one or two wrappers drawn from result and
\* response, in any of the orders, is normalized as the payload itself.
C8_TwoLevelUnwrap ==
    pc = "norm_out"
    => \A p \in StructuredCores : \A c \in Chains(2) :
         envelope = SuccessEnvelope(WrapChain(c, p))
         => parsed = parseAgentResponse(SuccessEnvelope(p))

---------------------------------------------------------------------------
(* The Page: what is in localStorage at startup, what the user enters and
   what the Agent Gateway answers *)

StoredEntry(p, ms) == JSONValue(HistoryEntry(StructuredReport(FullStructured), p, ms))

\* n entries, newest first.
StoredEntries(n) == [i \in 1..n |-> StoredEntry(Profile(Num(7000)), n - i)]

RandomSuffixes == {"k3x9q2a"}

\* What the user can have in the form when pressing Save: an edited form, a
\* blank one, or the form as it was filled from the profile.
FormProfiles == {Profile(Num(5000)), BlankProfile, FormProfile}

\* What the user types: here the text of the suggestion, or nothing.
ChatTexts == {Str("How can I reduce dining expenses?"), Str("")}

\* One of the three suggestions of line 660.
ChatSuggestions == {Str("How can I reduce dining expenses?")}

FailureEnvelope ==
    Obj([success |-> Bool(FALSE),
         response |-> Obj([message |-> Str("Agent unavailable")])])

\* What the await of callAIAgent can yield in handleAnalyze.
AnalysisOutcomes ==
    { Returned(SuccessEnvelope(FullStructured)),
      Returned(SuccessEnvelope(Str("hello"))),
      Returned(FailureEnvelope),
      Thrown(ErrorObject(Str("Network error"))) }

\* What the await of callAIAgent can yield in handleChatSend.
ChatOutcomes ==
    { Returned(SuccessEnvelope(FullStructured)),
      Returned(SuccessEnvelope(CardsOnly)),
      Returned(SuccessEnvelope(Str("hello"))),
      Returned(FailureEnvelope),
      Thrown(ErrorObject(Str("Network error"))) }

MaxAnalyses == 2
MaxChats == 1
MaxStalls == 1
MaxInFlight == 2

\* The milliseconds a gateway round trip can take: one, or none while the
\* budget of such round trips lasts.
Steps(budget) == IF stalls < budget THEN {0, 1} ELSE {1}

Stalled(dt) == IF dt = 0 THEN stalls + 1 ELSE stalls

\* The gateway answered, and with success.
Succeeded(outcome) ==
    outcome.kind = "returned" /\ Truthy(Get(outcome.value, "success"))

\* The record of overlapping round trips after one of this kind came back
\* with this outcome while so many of the other kind were in flight: it is
\* the first of two if it succeeded with the other still in flight, the
\* second if it succeeded after the other had come back first.
RaceAfter(kind, other, outcome, othersInFlight) ==
    IF ~Succeeded(outcome) THEN "none"
    ELSE IF othersInFlight > 0 THEN kind \o " first"
    ELSE IF race = other \o " first" THEN kind \o " second"
    ELSE "none"

\* The record of profile changes after a step that may set the active
\* profile: the profile is stale for the analysis call in flight once it is
\* no longer the one the call was issued for.
StaleAfterChange ==
    IF Len(analysisCalls) > 0 /\ profile' # profile THEN "in flight" ELSE stale

\* The record of profile changes after an analysis came back with this
\* outcome: its entry was appended under a changed profile if the profile
\* was changed while it was in flight and it came back with a report.
StaleAfterReturn(outcome) ==
    IF /\ stale = "in flight"
       /\ outcome.kind = "returned"
       /\ Truthy(parseAgentResponse(outcome.value))
    THEN "appended" ELSE "no"

\* Earlier records: three analyses and a profile.
LoadedStorage ==
    [finance_history |-> StoredJson(Arr(<<StoredEntry(Profile(Num(7000)), 0),
                                          StoredEntry(Profile(Num(0)), 0),
                                          StoredEntry(Null, 0)>>)),
     finance_profile |-> StoredJson(Profile(Num(7000)))]

\* The storage contents the Page is started on.
StartStorages ==
    { EmptyStorage,
      LoadedStorage,
      [finance_history |-> Corrupt,
       finance_profile |-> StoredJson(Profile(Num(7000)))],
      [finance_history |-> StoredJson(Obj([note |-> Str("n")])),
       finance_profile |-> Corrupt],
      [finance_history |-> StoredJson(Arr(<<>>)),
       finance_profile |-> StoredJson(Profile(Num(-1)))],
      [finance_history |-> StoredJson(Arr(StoredEntries(HISTORY_LIMIT))),
       finance_profile |-> StoredJson(Profile(Num(0)))],
      [finance_history |-> StoredJson(Arr(StoredEntries(HISTORY_LIMIT + 1))),
       finance_profile |-> Absent],
      [finance_history |-> Absent,
       finance_profile |-> StoredJson(Obj([salary |-> Num(3000)]))],
      [finance_history |-> Absent,
       finance_profile |-> StoredJson(Obj([salary |-> Num(3000),
                                           cards |-> Arr(<<>>)]))] }

InitOn(stores) ==
    /\ pc = "unmounted"
    /\ envelope = Undef
    /\ parsed = Undef
    /\ storage \in stores
    /\ PageInitialState

\* The steps of the Page, for the given answers of the gateway, outcomes of
\* the localStorage writes, bounds on the round trips completed, and budget
\* of round trips that take no time. A call can be issued while the bound on
\* completed round trips is not reached and fewer than MaxInFlight calls of
\* its kind are in flight.
PageNext(aOutcomes, cOutcomes, writes, maxA, maxC, budget) ==
    \/ \E sfx \in RandomSuffixes : Startup(sfx) /\ UNCHANGED counters
    \/ \E p \in FormProfiles, ok \in writes :
         handleSaveProfile(p, ok) /\ stale' = StaleAfterChange /\ UNCHANGED trips
    \/ /\ analyses < maxA /\ Len(analysisCalls) < MaxInFlight
       /\ handleAnalyze
       /\ UNCHANGED counters
    \/ \E i \in 1..Len(analysisCalls), o \in aOutcomes, dt \in Steps(budget),
          ok \in writes :
         /\ handleAnalyzeResume(i, o, dt, ok)
         /\ analyses' = analyses + 1
         /\ stalls' = Stalled(dt)
         /\ race' = RaceAfter("analysis", "chat", o, Len(chatCalls))
         /\ stale' = StaleAfterReturn(o)
         /\ UNCHANGED chats
    \/ /\ chats < maxC /\ Len(chatCalls) < MaxInFlight
       /\ \E text \in ChatTexts : ChatPanelSend(text)
       /\ UNCHANGED counters
    \/ /\ chats < maxC /\ Len(chatCalls) < MaxInFlight
       /\ \E q \in ChatSuggestions : ChatSuggestionClick(q)
       /\ UNCHANGED counters
    \/ \E i \in 1..Len(chatCalls), o \in cOutcomes :
         /\ handleChatSendResume(i, o, 1)
         /\ chats' = chats + 1
         /\ race' = RaceAfter("chat", "analysis", o, Len(analysisCalls))
         /\ UNCHANGED <<analyses, stalls, stale>>
    \/ handleSampleToggle(~sampleMode) /\ stale' = StaleAfterChange /\ UNCHANGED trips
    \/ \E k \in 1..Len(history) :
         handleViewHistoryEntry(k) /\ stale' = StaleAfterChange /\ UNCHANGED trips
    \/ \E tab \in {"dashboard", "history", "profile"} :
         SetActiveTab(tab) /\ UNCHANGED counters
    \/ \E open \in BOOLEAN : SetChatOpen(open) /\ UNCHANGED counters

\* The Page on a fresh browser.
Init == InitOn({EmptyStorage})

Next == PageNext(AnalysisOutcomes, ChatOutcomes, {TRUE}, MaxAnalyses, MaxChats, 0)

Spec == Init /\ [][Next]_vars

-----------------------------------------------------------------------------
\* The Page started on whatever the two localStorage keys may hold, taken
\* through mounting, the profile form, analyses and the history list; writes to localStorage
\* may fail (setItem throws when the quota is exceeded).
MaxStoredAnalyses == 1

\* What the gateway can answer here: the answers of AnalysisOutcomes, and
\* faults that carry no text (an Error with an empty message, a thrown value
\* that is no Error).
StoredAnalysisOutcomes ==
    AnalysisOutcomes \cup {Thrown(ErrorObject(Str(""))), Thrown(Str("timeout"))}

InitStored == InitOn(StartStorages)

NextStored ==
    \/ \E sfx \in RandomSuffixes : Startup(sfx) /\ UNCHANGED counters
    \/ \E p \in FormProfiles, ok \in BOOLEAN :
         handleSaveProfile(p, ok) /\ UNCHANGED counters
    \/ /\ analyses < MaxStoredAnalyses /\ Len(analysisCalls) < MaxInFlight
       /\ handleAnalyze
       /\ UNCHANGED counters
    \/ \E i \in 1..Len(analysisCalls), o \in StoredAnalysisOutcomes, ok \in BOOLEAN :
         /\ handleAnalyzeResume(i, o, 1, ok)
         /\ analyses' = analyses + 1
         /\ UNCHANGED <<chats, stalls, race, stale>>
    \/ \E k \in 1..Len(history) : handleViewHistoryEntry(k) /\ UNCHANGED counters
    \/ \E tab \in {"dashboard", "history", "profile"} :
         SetActiveTab(tab) /\ UNCHANGED counters

SpecStored == InitStored /\ [][NextStored]_vars

-----------------------------------------------------------------------------
\* The Page started on stored records, taken through every handler: mounting,
\* the profile form, analyses, chat, the sample toggle and the history list.
MaxLoadedAnalyses == 2
MaxLoadedChats == 1

\* Stored records the mount effect loads a history, a profile, or a profile
\* without emis from.
LoadedStarts ==
    { [finance_history |-> StoredJson(Arr(StoredEntries(1))),
       finance_profile |-> Absent],
      [finance_history |-> Absent,
       finance_profile |-> StoredJson(Profile(Num(7000)))],
      [finance_history |-> Absent,
       finance_profile |-> StoredJson(Obj([salary |-> Num(3000),
                                           cards |-> Arr(<<>>)]))] }

\* What the gateway answers here: a report or a fault to an analysis, a
\* report or a text to a chat message.
LoadedAnalysisOutcomes ==
    { Returned(SuccessEnvelope(FullStructured)),
      Thrown(ErrorObject(Str("Network error"))) }

LoadedChatOutcomes ==
    { Returned(SuccessEnvelope(FullStructured)),
      Returned(SuccessEnvelope(Str("hello"))) }

InitLoaded == InitOn(LoadedStarts)

NextLoaded ==
    PageNext(LoadedAnalysisOutcomes, LoadedChatOutcomes, {TRUE},
             MaxLoadedAnalyses, MaxLoadedChats, 0)

SpecLoaded == InitLoaded /\ [][NextLoaded]_vars

-----------------------------------------------------------------------------
\* The Page on a fresh browser, taken through one profile save and a run of
\* successful analyses long enough to fill the history and evict from it. The
\* n-th analysis is answered with a report whose safe_to_spend is n, so that
\* the entries can be told apart.
MaxCapAnalyses == 22

NumberedPayload(n) ==
    Obj([ report_type |-> Str("Monthly Financial Analysis"),
          income_summary |-> IncomeSummaryObj,
          safe_to_spend |-> Num(n) ])

InitCap == InitOn({EmptyStorage})

NextCap ==
    \/ \E sfx \in RandomSuffixes : Startup(sfx) /\ UNCHANGED counters
    \/ /\ ~hasProfile
       /\ handleSaveProfile(Profile(Num(5000)), TRUE)
       /\ UNCHANGED counters
    \/ /\ analyses < MaxCapAnalyses /\ Len(analysisCalls) < MaxInFlight
       /\ handleAnalyze
       /\ UNCHANGED counters
    \/ \E i \in 1..Len(analysisCalls), dt \in Steps(MaxStalls) :
         /\ handleAnalyzeResume(i, Returned(SuccessEnvelope(NumberedPayload(analyses + 1))),
                                dt, TRUE)
         /\ analyses' = analyses + 1
         /\ stalls' = Stalled(dt)
         /\ UNCHANGED <<chats, race, stale>>

SpecCap == InitCap /\ [][NextCap]_vars

-----------------------------------------------------------------------------
(* Claims about the history capacity and the analysis and chat gating *)

\* C1: in every reachable state, whatever array the stored history record
\* held at startup, the in-memory history has at most 20 entries.
C1_HistoryAtMost20 == Len(history) <= HISTORY_LIMIT

\* The k-th entry of the history is the one of the n-th analysis.
IsEntryOfAnalysis(k, n) == Get(Get(history[k], "report"), "safe_to_spend") = Num(n)

\* After n > 20 analyses the history holds the entries of analyses
\* n, n-1, ..., n-19 in this order.
Last20NewestFirst ==
    /\ Len(history) = HISTORY_LIMIT
    /\ \A k \in 1..HISTORY_LIMIT : IsEntryOfAnalysis(k, analyses - k + 1)

\* No two entries of the history have the same id.
IdsDistinct ==
    \A j, k \in 1..Len(history) :
        j # k => Get(history[j], "id") # Get(history[k], "id")

\* C2: after more than 20 successful analyses from an empty history, the
\* history holds exactly the 20 most recent entries, newest first, none
\* missing, and all entry ids are distinct.
C2_Last20NoGapsNoDuplicates ==
    analyses > HISTORY_LIMIT => Last20NewestFirst /\ IdsDistinct

\* The salary of a profile is a number above zero.
SalaryPositive(p) == Get(p, "salary").t = "number" /\ Get(p, "salary").n > 0

\* C9: every analysis call issued to the Agent Gateway is issued for a profile
\* with salary > 0, whatever profile record or history entries were loaded
\* from storage.
C9_AnalysisOnlyWithPositiveSalary ==
    \A i \in 1..Len(analysisCalls) : SalaryPositive(analysisCalls[i].profile)

\* C10: at most one analysis call and at most one chat call are in flight at
\* any time, the busy flag of each kind being set while its call is in
\* flight, so that no call is issued while the flag of its kind is set.
C10_OneInFlightPerKind ==
    /\ Len(analysisCalls) <= 1
    /\ Len(chatCalls) <= 1
    /\ Len(analysisCalls) = 1 => loading = TRUE
    /\ Len(chatCalls) = 1 => chatLoading = TRUE

\* An analysis call and a chat call are in flight together.
C10_Witness ==
    /\ Len(analysisCalls) = 1 /\ loading = TRUE
    /\ Len(chatCalls) = 1 /\ chatLoading = TRUE

-----------------------------------------------------------------------------
(* Claims about the report slot shared by analysis and chat *)

\* The normalizer takes the structured branch on this envelope.
NormalizesToStructured(env) ==
    /\ Truthy(Get(env, "success"))
    /\ Truthy(RawPayload(env))
    /\ IsStructured(Unwrap(RawPayload(env)))

\* This step is the return of the chat call in flight with this outcome.
ChatReturns(o) == Len(chatCalls) = 1 /\ handleChatSendResume(1, o, 1)

\* This step is the return of the analysis call in flight with this outcome.
AnalysisReturns(o) ==
    /\ Len(analysisCalls) = 1
    /\ \E dt \in {0, 1}, ok \in BOOLEAN : handleAnalyzeResume(1, o, dt, ok)

\* C11: when an analysis call and a chat call were in flight together and
\* both came back with success, the one that came back second, carrying a
\* structured report, leaves that report as the active report.
C11_SecondArrivalWins ==
    [][ /\ \A o \in ChatOutcomes :
             (race' = "chat second" /\ ChatReturns(o) /\ NormalizesToStructured(o.value))
                 => report' = parseAgentResponse(o.value)
        /\ \A o \in AnalysisOutcomes :
             (race' = "analysis second" /\ AnalysisReturns(o)
                /\ NormalizesToStructured(o.value))
                 => report' = parseAgentResponse(o.value) ]_vars

\* C12: a chat reply that the normalizer turns into a structured report
\* becomes the active report.
C12_StructuredChatReplyReplacesReport ==
    [][ \A o \in ChatOutcomes :
          (ChatReturns(o) /\ NormalizesToStructured(o.value))
              => report' = parseAgentResponse(o.value) ]_vars

-----------------------------------------------------------------------------
(* Claims about the chat log *)

\* The two fixed replies of handleChatSend (lines 1125, 1133).
ChatFallbackText == Str("I was unable to process your request. Please try again.")
ChatFaultText == Str("Sorry, an error occurred. Please try again.")

ChatSendStep == Len(chatCalls') = Len(chatCalls) + 1
ChatReturnStep == Len(chatCalls') = Len(chatCalls) - 1

\* The log after the step is the log before it.
ChatLogKept ==
    /\ Len(chatMessages') >= Len(chatMessages)
    /\ SubSeq(chatMessages', 1, Len(chatMessages)) = chatMessages

\* The step appends one message of this role to the log.
AppendsOne(role) ==
    /\ Len(chatMessages') = Len(chatMessages) + 1
    /\ ChatLogKept
    /\ chatMessages'[Len(chatMessages')].role = role

\* The content of the message the step appended.
AppendedContent == chatMessages'[Len(chatMessages')].content

\* A send appends the user's message at once and sets the busy flag, a return
\* appends one agent message and clears it, and no step removes or reorders
\* messages.
ChatLogProtocol ==
    /\ ChatSendStep =>
         /\ AppendsOne("user")
         /\ AppendedContent = chatCalls'[Len(chatCalls')].message
         /\ chatLoading' = TRUE
    /\ ChatReturnStep => AppendsOne("agent") /\ chatLoading' = FALSE
    /\ ChatLogKept

\* The text of the normalized reply: follow_up_response, else advice.
ParsedText(env) ==
    LET r == parseAgentResponse(env) IN
    IF Truthy(Get(r, "follow_up_response")) THEN Get(r, "follow_up_response")
    ELSE Get(r, "advice")

-----------------------------------------------------------------------------
(* Claims about history selection *)

\* This step is the selection of the k-th history entry.
Selects(k) == k \in 1..Len(history) /\ handleViewHistoryEntry(k)

\* The step issues no gateway call and leaves the history, in memory and
\* stored, as it was.
SelectionIsLocal ==
    /\ analysisCalls' = analysisCalls
    /\ chatCalls' = chatCalls
    /\ history' = history
    /\ storage' = storage

\* Selecting the k-th entry again in the state after the step would change
\* neither the active report nor the active profile.
SelectionIdempotent(k) ==
    /\ Get(history'[k], "report") = report'
    /\ ProfileAfterView(history'[k], profile') = profile'

\* C14 as stated: selecting an entry makes the entry's report and the
\* entry's profile the active ones, is local and is idempotent.
C14_Original ==
    [][ \A k \in 1..Len(history) :
          Selects(k) =>
             /\ report' = Get(history[k], "report")
             /\ profile' = Get(history[k], "profile")
             /\ SelectionIsLocal
             /\ SelectionIdempotent(k) ]_vars

\* C14: selecting an entry makes the entry's report the active one, and the
\* entry's profile the active one when the entry holds a profile (the
\* active profile is kept when it holds none); the selection is local and
\* idempotent.
C14_SelectionReplacesAndIsIdempotent ==
    [][ \A k \in 1..Len(history) :
          Selects(k) =>
             /\ report' = Get(history[k], "report")
             /\ IF Get(history[k], "profile").t = "object"
                THEN profile' = Get(history[k], "profile")
                ELSE profile' = profile
             /\ SelectionIsLocal
             /\ SelectionIdempotent(k) ]_vars

\* An entry whose profile differs from the one loaded at startup has been
\* selected: its report and its profile are the active ones.
C14_Witness ==
    /\ activeTab = "dashboard"
    /\ analyses = 0
    /\ Get(profile, "salary") = Num(0)
    /\ \E k \in 1..Len(history) :
         /\ report = Get(history[k], "report")
         /\ profile = Get(history[k], "profile")

-----------------------------------------------------------------------------
(* Claims about the session identifier *)

\* Before the mount effect there is no identifier and no call; after it the
\* identifier is not empty; every call in flight carries the identifier.
SessionIdCarried ==
    /\ pc = "unmounted" => sessionId = "" /\ analysisCalls = <<>> /\ chatCalls = <<>>
    /\ pc = "mounted" => sessionId # ""
    /\ \A i \in 1..Len(analysisCalls) : analysisCalls[i].session_id = sessionId
    /\ \A i \in 1..Len(chatCalls) : chatCalls[i].session_id = sessionId

\* C15: the session identifier is set once, by the mount effect, before any
\* gateway call can be issued, and never changes afterwards; every analysis
\* and chat call carries it, and it is never empty.
C15_OneSessionId ==
    /\ []SessionIdCarried
    /\ [][sessionId' # sessionId => pc = "unmounted" /\ pc' = "mounted"]_vars

\* An analysis call and a chat call in flight, both with the identifier
\* made at startup.
C15_Witness ==
    /\ Len(analysisCalls) = 1
    /\ Len(chatCalls) = 1
    /\ sessionId = SessionIdOf(0, "k3x9q2a")
    /\ analysisCalls[1].session_id = sessionId
    /\ chatCalls[1].session_id = sessionId

-----------------------------------------------------------------------------
(* Claims about re-analysis and the analysis outcomes *)

\* ReportReady: the dashboard tab of the main view shows a report and no
\* analysis is in flight.
ReportReady ==
    /\ Interactive
    /\ View = "main"
    /\ activeTab = "dashboard"
    /\ Truthy(report)
    /\ Truthy(profile)
    /\ loading = FALSE
    /\ analysisCalls = <<>>

\* C16: in ReportReady an analyze trigger is on screen, whatever the report
\* is, and an analysis that comes back with a report makes exactly that
\* report the active one.
C16_ReanalysisAlwaysPermitted ==
    /\ [](ReportReady => AnalyzeTriggerShown)
    /\ [][ \A o \in AnalysisOutcomes :
             (AnalysisReturns(o) /\ Succeeded(o) /\ Truthy(parseAgentResponse(o.value)))
                 => report' = parseAgentResponse(o.value) ]_vars

\* The gateway signalled failure: the call threw, or the envelope says
\* success = false.
GatewayFailed(o) ==
    o.kind = "thrown" \/ Get(o.value, "success") = Bool(FALSE)

\* C17: on the analysis path, the message shown for a gateway failure is
\* never the message shown when the gateway succeeded and the normalizer
\* returned null.
C17_FailureMessageDistinct ==
    [][ \A o \in AnalysisOutcomes :
          (AnalysisReturns(o) /\ GatewayFailed(o)) => error' # ParseErrorText ]_vars

\* AnalysisError: the dashboard tab of the main view shows an error and no
\* analysis is in flight.
AnalysisError ==
    /\ Interactive
    /\ View = "main"
    /\ activeTab = "dashboard"
    /\ Truthy(error)
    /\ loading = FALSE

\* This step issues an analysis call.
AnalyzeStep == Len(analysisCalls') = Len(analysisCalls) + 1

\* C18: an analysis that ends in a gateway failure or a null normalization
\* sets a non-empty error message, clears loading and leaves the report and
\* the history, in memory and stored, unchanged; in AnalysisError an analyze
\* trigger is on screen, and using it sets loading and clears the error.
C18_FailureGoesToAnalysisError ==
    /\ [][ \A o \in StoredAnalysisOutcomes :
             (AnalysisReturns(o)
                /\ (GatewayFailed(o) \/ ~Truthy(parseAgentResponse(o.value))))
                 => /\ Truthy(error')
                    /\ loading' = FALSE
                    /\ report' = report
                    /\ history' = history
                    /\ storage' = storage ]_vars
    /\ [](AnalysisError => AnalyzeTriggerShown)
    /\ [][(AnalysisError /\ AnalyzeStep) => loading' = TRUE /\ error' = Null]_vars

-----------------------------------------------------------------------------
(* Claims about the history entries and the persistence failures *)

\* The history after the step is the history before it with one entry put
\* in front, cut to the limit; the entry holds this report and this profile.
PrependsEntry(newReport, currentProfile) ==
    /\ Len(history') = (IF Len(history) < HISTORY_LIMIT
                        THEN Len(history) + 1 ELSE HISTORY_LIMIT)
    /\ Get(history'[1], "report") = newReport
    /\ Get(history'[1], "profile") = currentProfile
    /\ \A k \in 2..Len(history') : history'[k] = history[k - 1]

\* C19: an analysis that comes back with a report makes it the active
\* report and puts exactly one entry, holding that report and the profile
\* the analysis was requested for, in front of the history; the history
\* changes in no other step once the page is mounted.
C19_SuccessGoesToReportReady ==
    [][ /\ \A o \in AnalysisOutcomes :
             (AnalysisReturns(o) /\ Truthy(parseAgentResponse(o.value)))
                 => /\ report' = parseAgentResponse(o.value)
                    /\ loading' = FALSE
                    /\ PrependsEntry(parseAgentResponse(o.value), analysisCalls[1].profile)
                    /\ AnalyzeMessage(Get(history'[1], "profile")) = analysisCalls[1].message
        /\ (history' # history /\ pc = "mounted")
             => \E o \in AnalysisOutcomes :
                   AnalysisReturns(o) /\ Truthy(parseAgentResponse(o.value)) ]_vars

\* Two analyses have come back with a report: the history holds both, the
\* newer in front, and the active report is the newer one.
C19_Witness ==
    /\ Len(history) = 2
    /\ analyses = 2
    /\ report = Get(history[1], "report")
    /\ loading = FALSE

\* C20: when the write of the profile record fails, the profile is saved in
\* memory all the same and no error is set; when the write of the history
\* record fails, the report is active and the entry is in the history all
\* the same and no error is set; the stored record is what it was.
C20_WriteFailuresSwallowed ==
    [][ /\ \A p \in FormProfiles :
             handleSaveProfile(p, FALSE)
                 => /\ profile' = p
                    /\ hasProfile' = TRUE
                    /\ activeTab' = "dashboard"
                    /\ error' = error
                    /\ storage' = storage
        /\ \A o \in StoredAnalysisOutcomes :
             (Len(analysisCalls) = 1 /\ handleAnalyzeResume(1, o, 1, FALSE)
                /\ Truthy(parseAgentResponse(o.value)))
                 => /\ report' = parseAgentResponse(o.value)
                    /\ PrependsEntry(parseAgentResponse(o.value), analysisCalls[1].profile)
                    /\ error' = Null
                    /\ loading' = FALSE
                    /\ storage' = storage ]_vars

\* Both writes have failed: the profile and one history entry are in memory
\* and neither record is stored.
C20_Witness ==
    /\ storage = EmptyStorage
    /\ hasProfile = TRUE
    /\ profile = Profile(Num(5000))
    /\ Len(history) = 1
    /\ Get(history[1], "profile") = profile
    /\ report = Get(history[1], "report")
    /\ error = Null

-----------------------------------------------------------------------------
(* Claims about startup *)

\* This step is the mount effect.
StartupStep == pc = "unmounted" /\ pc' = "mounted"

\* The history record is absent, is no JSON text, or is JSON but no array.
HistoryRecordUnusable ==
    \/ storage.finance_history.kind \in {"absent", "corrupt"}
    \/ storage.finance_history.kind = "json" /\ storage.finance_history.value.t # "array"

\* C21: the mount effect on empty storage leaves the page with no profile,
\* no history, no report, no error and not loading; on an absent or corrupt
\* or non-array history record it leaves the history empty and sets no error.
C21_StartupToleratesStorage ==
    [][ StartupStep =>
          /\ storage = EmptyStorage =>
               /\ profile' = Null /\ hasProfile' = FALSE
               /\ history' = <<>>
               /\ report' = Null /\ error' = Null /\ loading' = FALSE
          /\ HistoryRecordUnusable => history' = <<>> /\ error' = Null ]_vars

\* The page has mounted on a history record that is no JSON text: the
\* history is empty and no error is shown.
C21_Witness ==
    /\ pc = "mounted"
    /\ storage.finance_history = Corrupt
    /\ history = <<>>
    /\ error = Null

-----------------------------------------------------------------------------
(* Claims about where the active report comes from *)

\* The step puts in the report slot what the normalizer returned for the
\* gateway response that just arrived, or the report of a history entry.
ReportFromNormalizer ==
    \/ \E o \in AnalysisOutcomes :
         AnalysisReturns(o) /\ report' = parseAgentResponse(o.value)
    \/ \E o \in ChatOutcomes :
         ChatReturns(o) /\ report' = parseAgentResponse(o.value)
    \/ \E k \in 1..Len(history) :
         Selects(k) /\ report' = Get(history[k], "report")

\* Every report held by a history entry is one the normalizer returned for a
\* gateway response.
HistoryFromNormalizer ==
    \A k \in 1..Len(history) :
        \E o \in AnalysisOutcomes :
            Get(history[k], "report") = parseAgentResponse(o.value)

\* C22 as stated: the active report changes only to none or to what the
\* normalizer returned for a gateway response, directly or through a
\* history entry.
C22_Original ==
    /\ []HistoryFromNormalizer
    /\ [][report' # report => (report' = Null \/ ReportFromNormalizer)]_vars

\* C22: the active report changes only to none, to what the normalizer
\* returned for a gateway response (directly or through a history entry),
\* or to the built-in sample report when sample mode is switched on; it is
\* always one of these values whole.
C22_ReportProvenance ==
    /\ []HistoryFromNormalizer
    /\ [][report' # report =>
            \/ report' = Null
            \/ ReportFromNormalizer
            \/ sampleMode = FALSE /\ sampleMode' = TRUE /\ report' = SAMPLE_REPORT ]_vars

\* Sample mode was switched on over a report that came from an analysis:
\* the sample report is the active one and the analysis' report is in the
\* history.
C22_Witness ==
    /\ sampleMode = TRUE
    /\ report = SAMPLE_REPORT
    /\ Len(history) = 1
    /\ Get(history[1], "report") # SAMPLE_REPORT

-----------------------------------------------------------------------------
(* Claims about the writes to localStorage *)

\* The store with this value, as JSON text, under this key and the other
\* key as it was.
StoreWith(key, v) == [storage EXCEPT ![key] = StoredJson(JSONValue(v))]

\* The step is a successful analysis that appended to the history, and the
\* history record is now the whole new history.
HistoryAppendWrite ==
    /\ \E o \in AnalysisOutcomes :
         AnalysisReturns(o) /\ Truthy(parseAgentResponse(o.value))
    /\ history' # history
    /\ storage' = StoreWith("finance_history", Arr(history'))

\* The step is a profile save, and the profile record is now the whole
\* saved profile.
ProfileSaveWrite ==
    /\ \E p \in FormProfiles : handleSaveProfile(p, TRUE)
    /\ storage' = StoreWith("finance_profile", profile')

\* C23: localStorage holds the two records only; it changes only in a
\* history append, which stores the whole new history, and in a profile
\* save, which stores the whole saved profile; the mount effect, chat
\* sends and returns, history selections, sample toggles and failed
\* analyses leave it as it was.
C23_StorageWrites ==
    /\ [](DOMAIN storage = {"finance_history", "finance_profile"})
    /\ [][storage' # storage => (HistoryAppendWrite \/ ProfileSaveWrite)]_vars
    /\ [][(StartupStep \/ ChatSendStep \/ ChatReturnStep \/ sampleMode' # sampleMode
            \/ \E k \in 1..Len(history) : Selects(k))
              => storage' = storage]_vars

\* A chat round trip has ended after a profile save and an analysis: the
\* stored records are the profile and the history, and the chat log is in
\* memory only.
C23_Witness ==
    /\ Len(chatMessages) = 2
    /\ chatCalls = <<>>
    /\ Len(history) = 1
    /\ storage = [finance_history |-> StoredJson(JSONValue(Arr(history))),
                  finance_profile |-> StoredJson(JSONValue(profile))]

-----------------------------------------------------------------------------
(* Claims about the busy indicator and the busy flags *)

\* C24: the busy indicator names the manager agent whenever an analysis or
\* a chat call is in flight, and is none only when none is.
C24_BusyIndicatorTracksRequests ==
    /\ (Len(analysisCalls) + Len(chatCalls) > 0) => activeAgentId = Str(MANAGER_AGENT_ID)
    /\ activeAgentId = Null => (Len(analysisCalls) + Len(chatCalls) = 0)

\* C25: loading is true exactly while an analysis call is in flight and
\* chatLoading is true exactly while a chat call is in flight, so that the
\* return of the call is all a flag waits for.
C25_FlagsTrackCalls ==
    /\ loading = TRUE <=> Len(analysisCalls) > 0
    /\ chatLoading = TRUE <=> Len(chatCalls) > 0

-----------------------------------------------------------------------------
(* Claims about what a chat round trip leaves alone *)

\* The step leaves the history, in memory and stored, the profile, the
\* analysis error and the loading flag as they were.
ChatFrame ==
    /\ history' = history
    /\ storage' = storage
    /\ profile' = profile
    /\ hasProfile' = hasProfile
    /\ error' = error
    /\ loading' = loading

\* The normalizer gives null for this envelope, or a report whose
\* income_summary is null.
NoIncomeSummary(env) ==
    \/ parseAgentResponse(env) = Null
    \/ Get(parseAgentResponse(env), "income_summary") = Null

\* C26: the send and the return of a chat call leave the history, in memory
\* and stored, the profile, the analysis error and the loading flag as they
\* were; a reply that normalizes to null or to a report with a null
\* income_summary leaves the active report as it was.
C26_ChatRoundTripFrame ==
    [][ /\ (ChatSendStep \/ ChatReturnStep) => ChatFrame
        /\ \A o \in ChatOutcomes :
             (ChatReturns(o) /\ o.kind = "returned" /\ NoIncomeSummary(o.value))
                 => report' = report ]_vars

\* A chat round trip has ended in a reply without income_summary while an
\* analysis error and a report of an earlier analysis were on the page: both
\* are still there, and so is the one history entry.
C26_Witness ==
    /\ chats = 1
    /\ chatCalls = <<>>
    /\ Len(chatMessages) = 2
    /\ chatMessages[2].content = Str("hello")
    /\ error # Null
    /\ Len(history) = 1
    /\ report = Get(history[1], "report")

-----------------------------------------------------------------------------
(* Claims about the profile a history entry holds *)

\* C27: the entry that a successful analysis puts in front of the history
\* holds the profile the request was issued for, the one its message was
\* built from, whatever the active profile is when the response arrives.
C27_EntryHoldsRequestProfile ==
    [][ \A i \in 1..Len(analysisCalls), o \in AnalysisOutcomes :
          ( /\ \E dt \in {0, 1} : handleAnalyzeResume(i, o, dt, TRUE)
            /\ Truthy(parseAgentResponse(o.value)) )
              => /\ Get(history'[1], "profile") = analysisCalls[i].profile
                 /\ AnalyzeMessage(Get(history'[1], "profile")) = analysisCalls[i].message ]_vars

\* An analysis has come back with a report after the active profile was
\* changed while it was in flight: the entry in front holds another profile
\* than the active one.
C27_Witness ==
    /\ stale = "appended"
    /\ Len(history) >= 1
    /\ Get(history[1], "profile") # profile
    /\ report = Get(history[1], "report")

-----------------------------------------------------------------------------
(* Claims about the two stored records at startup *)

\* The profile record is JSON text of an object with a positive salary.
ProfileRecordValid ==
    /\ storage.finance_profile.kind = "json"
    /\ storage.finance_profile.value.t = "object"
    /\ Get(storage.finance_profile.value, "salary").t = "number"
    /\ Get(storage.finance_profile.value, "salary").n > 0

\* The history record is JSON text of an array.
HistoryRecordValid ==
    /\ storage.finance_history.kind = "json"
    /\ storage.finance_history.value.t = "array"

\* C28: the mount effect loads a valid profile record (the profile is set
\* and hasProfile is true) whatever the history record is, and loads a valid
\* history record whatever the profile record is.
C28_RecordsLoadedIndependently ==
    [][ StartupStep =>
          /\ ProfileRecordValid
               => (profile' = storage.finance_profile.value /\ hasProfile' = TRUE)
          /\ HistoryRecordValid
               => history' = storage.finance_history.value.a ]_vars

-----------------------------------------------------------------------------
(* Claims about wrapped conversational payloads, checked under SpecNorm *)

\* C29: an object payload, structured or conversational, inside one result
\* wrapper or one response wrapper is normalized to the same report as the
\* payload itself, the follow_up_response text included.
C29_OneLevelWrapInvariant ==
    pc = "norm_out"
    => \A p \in StructuredCores \cup ConvCores : \A k \in WrapperKeys :
         envelope = SuccessEnvelope(Wrap(k, p))
         => parsed = parseAgentResponse(SuccessEnvelope(p))

-----------------------------------------------------------------------------
(* Claims about hasProfile and the analysis error *)

\* C30: in every reachable state hasProfile is true exactly when there is an
\* active profile, and no analysis error is set while loading is true.
C30_ProfileFlagAndErrorConsistent ==
    /\ hasProfile = TRUE <=> profile # Null
    /\ error # Null => loading = FALSE

\* The profile record was loaded at startup and not replaced since; the one
\* analysis completed ended in a fault (no report, no history entry), and a
\* second analysis of the loaded profile is in flight with the error cleared.
C30_Witness ==
    /\ hasProfile = TRUE
    /\ profile = Profile(Num(7000))
    /\ storage.finance_profile = StoredJson(Profile(Num(7000)))
    /\ analyses = 1
    /\ report = Null
    /\ history = <<>>
    /\ Len(analysisCalls) = 1
    /\ loading = TRUE
    /\ error = Null

=============================================================================
